---- MODULE Spec2Model ----
(***************************************************************************)
(* A model of nihao: the FaceRecognizer authentication protocol            *)
(* (nihao-core/src/lib.rs), the Face Store (store.rs), the Matcher         *)
(* (compare.rs), the Password Vault (password.rs) and the PAM plugin       *)
(* (pam-nihao/src/lib.rs).                                                 *)
(*                                                                         *)
(* Spec     one FaceRecognizer driven by direct authenticate calls, with   *)
(*          another process removing faces meanwhile.                      *)
(* SpecFair Spec with the fairness of a running thread.                    *)
(* SpecPam  the plugin: request threads of one process sharing RECOGNIZER. *)
(* SpecStore   calls of the Face Store's operations and of enroll.         *)
(* SpecVault   calls of the Password Vault's operations.                   *)
(* SpecMatch   calls of the Matcher.                                       *)
(* SpecNms     calls of the detector's non-maximum suppression.            *)
(* SpecQuality the camera's quality gate on decoded frames.                *)
(* SpecEnroll  enroll calls on one FaceRecognizer, attempt by attempt.     *)
(* SpecRecognizer  enroll and authenticate calls on one FaceRecognizer.    *)
(* SpecConcurrent  the Face Store's writes step by step, with a reader.    *)
(* SpecPanicFree   SpecRecognizer, and detect on decoded detections.       *)
(*                                                                         *)
(* Embeddings are integer vectors scaled by 10, similarities and the       *)
(* matching threshold are therefore scaled by 100.  Time is a discrete     *)
(* clock counted from the beginning of the current authenticate call.      *)
(***************************************************************************)
EXTENDS Integers, Sequences, FiniteSets, TLC

\* ------------------------------------------------------------------ bounds
\* config.matching.max_frames of the modelled configuration
max_frames == 3
\* config.matching.timeout_secs of the modelled configuration
timeout == 1
\* the clock stops advancing here
MaxTime == 3
\* direct authenticate calls per behaviour
MaxCalls == 2
\* records per manifest
MaxFaces == 2
\* candidates per call of the matcher
MaxCandidates == 3
\* detections per call of nms
MaxDetections == 3

\* config.matching.threshold (0.4), scaled by 100
threshold == 40

Users == {"alice", "bob", "carol"}

\* a blocking operation returns within the current clock tick or takes one
Ticks == {0, 1}

\* embeddings in tenths; against E1, E2 scores 0.30 (under the threshold) and
\* E4 0.40 (exactly the threshold)
E1 == <<10, 0>>
E2 == <<3, 9>>
E4 == <<4, 9>>
Embeddings == {E1, E2, E4}
\* "no embedding": the embedder failed, or a file is absent
NoEmb == <<>>

FaceIds == 0 .. (MaxFaces - 1)
Labels == {"none", "glasses"}

Min(a, b) == IF a < b THEN a ELSE b

\* ------------------------------------------------------------------ state
VARIABLES
  \* Face Store on disk (store.rs)
  store,
  \* FaceRecognizer fields (lib.rs:39-46); 0 is None, n the n-th handle built
  camera, detector, embedder,
  \* config.debug.save_screenshots
  save_screenshots,
  \* the running authenticate call (lib.rs:103-369)
  pc, username, enrolled_embeddings, frame_idx, start_time, result,
  \* the warm-up worker of the call and workers left behind by earlier calls
  worker, leaked,
  \* the clock, and the number of calls made
  now, calls,
  \* history of the current call
  hist,
  \* the plugin (pam-nihao/src/lib.rs)
  recognizer, lock, poisoned, ppc, puser, perr, presult, authtok, coreRes,
  vault, constructed,
  \* the last completed call of a store, vault or matcher operation, with
  \* its arguments and what it returned
  last,
  \* per user, the password the vault is expected to hold
  kept,
  \* the running enroll_with_debug call (lib.rs:378-485)
  enroll,
  \* the save_embedding or remove_embedding call under way in another
  \* process (store.rs:103-183), between two of its file-system steps
  writer

coreVars == <<camera, detector, embedder, pc, username, enrolled_embeddings,
              frame_idx, start_time, result, worker, leaked, now, hist,
              enroll>>
pamVars == <<recognizer, lock, poisoned, ppc, puser, perr, presult, authtok,
             coreRes, vault, constructed>>
auxVars == <<last, kept, enroll, writer>>
\* what a step of the authenticate call leaves alone
others == <<store, save_screenshots, calls, recognizer, lock, poisoned,
            ppc, puser, perr, presult, authtok, coreRes, vault,
            constructed, last, kept, enroll, writer>>
vars == <<store, camera, detector, embedder, save_screenshots, pc,
          username, enrolled_embeddings, frame_idx, start_time, result, worker,
          leaked, now, calls, hist, recognizer, lock, poisoned, ppc, puser,
          perr, presult, authtok, coreRes, vault, constructed, last, kept,
          enroll, writer>>

\* ------------------------------------------------------------- Face Store
\* bincode::serialize of an ndarray: the length, then the elements
serialize(e) == <<Len(e)>> \o e

\* bincode::deserialize: fails unless the length prefix matches the data
deserialize(d) ==
  IF Len(d) >= 1 /\ d[1] = Len(d) - 1
    THEN [ok |-> TRUE, val |-> SubSeq(d, 2, Len(d))]
    ELSE [ok |-> FALSE, val |-> NoEmb]

\* an absent sibling file
NoFile == <<>>

EmptyUser == [dir |-> FALSE, meta |-> FALSE, faces |-> <<>>,
              files |-> [i \in FaceIds |-> NoFile]]

\* load_metadata: an absent metadata.toml reads as an empty manifest
load_metadata(u) == IF store[u].meta THEN store[u].faces ELSE <<>>

\* list_faces: empty without a user directory, else the manifest's records
list_faces(u) == IF ~store[u].dir THEN <<>> ELSE load_metadata(u)

\* has_faces: the directory exists and the manifest is not empty
has_faces(u) == store[u].dir /\ Len(list_faces(u)) > 0

\* (variant: the embeddings are returned in reverse manifest order)
load_embeddings_Reversed(u) ==
  IF ~store[u].dir THEN [ok |-> FALSE, err |-> "UserNotFound", val |-> <<>>]
  ELSE LET m == load_metadata(u)
           rd == [i \in 1 .. Len(m) |-> store[u].files[m[Len(m) + 1 - i].id]]
       IN IF \E i \in 1 .. Len(m) : rd[i] = NoFile \/ ~deserialize(rd[i]).ok
            THEN [ok |-> FALSE, err |-> "Io", val |-> <<>>]
          ELSE [ok |-> TRUE, err |-> "none",
                val |-> [i \in 1 .. Len(m) |-> deserialize(rd[i]).val]]

\* load_embeddings: UserNotFound without a directory; each manifest record's
\* sibling file is read and deserialized, in manifest order
load_embeddings(u) ==
  IF ~store[u].dir THEN [ok |-> FALSE, err |-> "UserNotFound", val |-> <<>>]
  ELSE LET m == load_metadata(u)
           rd == [i \in 1 .. Len(m) |-> store[u].files[m[i].id]]
       IN IF \E i \in 1 .. Len(m) : rd[i] = NoFile
            THEN [ok |-> FALSE, err |-> "Io", val |-> <<>>]
          ELSE IF \E i \in 1 .. Len(m) : ~deserialize(rd[i]).ok
            THEN [ok |-> FALSE, err |-> "Serialization", val |-> <<>>]
          ELSE [ok |-> TRUE, err |-> "none",
                val |-> [i \in 1 .. Len(m) |-> deserialize(rd[i]).val]]

\* save_embedding: id = face_<len(manifest)>, write the sibling, append, rewrite
save_embedding(u, e, l) ==
  LET m == load_metadata(u)
      id == Len(m)
  IN [store EXCEPT ![u] = [dir |-> TRUE, meta |-> TRUE,
                           faces |-> Append(m, [id |-> id, label |-> l]),
                           files |-> [store[u].files EXCEPT ![id] = serialize(e)]]]

\* position of face_id in a manifest, 0 when absent
position(m, face_id) ==
  IF \E i \in 1 .. Len(m) : m[i].id = face_id
    THEN CHOOSE i \in 1 .. Len(m) :
           m[i].id = face_id /\ \A j \in 1 .. (i - 1) : m[j].id # face_id
    ELSE 0

\* Vec::remove
remove_at(s, i) == [j \in 1 .. (Len(s) - 1) |-> IF j < i THEN s[j] ELSE s[j + 1]]

\* remove_embedding: drop the record, delete the sibling, rewrite the manifest
remove_embedding(u, face_id) ==
  LET m == load_metadata(u)
      i == position(m, face_id)
  IN [store EXCEPT ![u] = [dir |-> TRUE, meta |-> TRUE,
                           faces |-> remove_at(m, i),
                           files |-> [store[u].files EXCEPT ![face_id] = NoFile]]]

\* ---------------------------------------------------------------- Matcher
\* cosine_similarity: the dot product of two unit vectors
cosine_similarity(a, b) == a[1] * b[1] + a[2] * b[2]

NoMatch == [found |-> FALSE, face_id |-> 0, similarity |-> 0]

\* (variant: nothing is filtered out)
Passing_NoFilter(query, candidates, th) == 1 .. Len(candidates)

\* (variant: a similarity equal to the threshold does not pass)
Passing_Strict(query, candidates, th) ==
  {i \in 1 .. Len(candidates) : cosine_similarity(query, candidates[i]) > th}

\* compare.rs:26, the candidates that pass the filter `sim >= threshold`
Passing(query, candidates, th) ==
  {i \in 1 .. Len(candidates) : cosine_similarity(query, candidates[i]) >= th}

\* find_best_match: enumerate, map to similarity, filter, max_by; Iterator::max_by
\* returns the last of several equally maximal elements
find_best_match(query, candidates, th) ==
  LET P == Passing(query, candidates, th)
  IN IF P = {} THEN NoMatch
     ELSE LET best == CHOOSE i \in P :
                        /\ \A j \in P : cosine_similarity(query, candidates[j])
                                          <= cosine_similarity(query, candidates[i])
                        /\ \A j \in P : (cosine_similarity(query, candidates[j])
                                          = cosine_similarity(query, candidates[i]))
                                        => j <= i
          IN [found |-> TRUE, face_id |-> best - 1,
              similarity |-> cosine_similarity(query, candidates[best])]

\* ------------------------------------------------------- frames and camera
\* What the camera stream can deliver to one capture.  A frame carries what
\* the quality statistics, the detector, the aligner and the embedder make of
\* it: q its exposure class, det the detector's answer, al whether alignment
\* succeeds, emb the embedding (NoEmb when the embedder fails).
BadFrames == {[q |-> x, det |-> "nofaces", al |-> FALSE, emb |-> NoEmb] :
                x \in {"black", "overexposed"}}
GoodFrames ==
  {[q |-> "good", det |-> d, al |-> FALSE, emb |-> NoEmb] :
     d \in {"nofaces", "error", "faces"}}
  \cup {[q |-> "good", det |-> "faces", al |-> TRUE, emb |-> e] :
          e \in Embeddings \cup {NoEmb}}
Frames == BadFrames \cup GoodFrames
\* the stream itself failing (MmapStream::with_buffers or next, or decoding)
StreamError == [q |-> "error", det |-> "nofaces", al |-> FALSE, emb |-> NoEmb]
Deliveries == Frames \cup {StreamError}

\* capture_frame(check_quality) on what the stream delivered
capture_frame(check_quality, d) ==
  IF d.q = "error" THEN "Err"
  ELSE IF check_quality /\ d.q # "good" THEN "BadFrame"
  ELSE "Ok"

\* ------------------------------------------------------------ call history
\* The embeddings on disk for user u, read off the store directly.
StoredEmbeddings(u) ==
  IF ~store[u].dir \/ ~store[u].meta THEN {}
  ELSE {deserialize(store[u].files[store[u].faces[i].id]).val :
          i \in 1 .. Len(store[u].faces)}

\* stored: the user's embeddings on disk when the call began; handles: the
\* recognizer's handles then; spawned, opened, gated: workers spawned, cameras
\* opened, quality-gated captures made; final: the frame of the iteration that
\* returned; k, first: the leading bad frames of the stream and what followed
\* them; allNoMatch: every iteration so far embedded a good frame that matched
\* nothing; lateGated, lateRaw: a capture began past the deadline; warmupEnd:
\* when the warm-up ended (-1 before)
NoHist ==
  [stored |-> {}, handles |-> <<0, 0, 0>>, enrolledAtCall |-> FALSE,
   spawned |-> 0, opened |-> 0, gated |-> 0,
   final |-> StreamError, k |-> 0, first |-> "none", allNoMatch |-> TRUE,
   lateGated |-> FALSE, lateRaw |-> FALSE, warmupEnd |-> -1,
   installed |-> FALSE, lateMatch |-> FALSE]

\* whether frame f, taken through the whole pipeline, matches an enrolled face
IsMatching(f) ==
  /\ f.q = "good" /\ f.det = "faces" /\ f.al /\ f.emb # NoEmb
  /\ find_best_match(f.emb, enrolled_embeddings, threshold).found

\* the leading run of bad frames of the stream, and what came first after it
\* (k is capped at max_frames, and dropped once something else came first)
Observe(h, d, gatedCapture) ==
  IF h.first # "none" THEN h
  ELSE IF d.q \in {"black", "overexposed"}
    THEN [h EXCEPT !.k = Min(max_frames, h.k + 1)]
  ELSE IF IsMatching(d)
    THEN [h EXCEPT !.first = IF gatedCapture THEN "match_gated" ELSE "match_raw"]
  ELSE [h EXCEPT !.first = "other", !.k = 0]

\* ------------------------------------------------------- authenticate call
Return(r) == pc' = "done" /\ result' = r

\* (variant: the deadline itself already counts as late)
TimedOut_AtDeadline(elapsed) == elapsed >= timeout

\* lib.rs:213, the deadline poll
TimedOut(elapsed) == elapsed > timeout

\* (variant: the call goes on to the warm-up whatever the store holds)
Precheck_Skipped(u) == "none"

\* lib.rs:105-113: has_faces, load_embeddings and the emptiness check; "none"
\* lets the call go on
Precheck(u) ==
  LET loaded == load_embeddings(u)
  IN IF ~has_faces(u) THEN "Err(NoEnrolledFaces)"
     ELSE IF ~loaded.ok THEN "Err(Storage)"
     ELSE IF Len(loaded.val) = 0 THEN "Err(NoEnrolledFaces)"
     ELSE "none"

\* lib.rs:103-137: the enrolled-faces checks, the load, and either the skip of
\* the warm-up (lib.rs:123, then 200-206) or the spawn of the worker
AuthBegin(u) ==
  LET loaded == load_embeddings(u)
      models_loaded == detector # 0 /\ embedder # 0
      camera_ready == camera # 0
      h0 == [NoHist EXCEPT !.stored = StoredEmbeddings(u),
                           !.handles = <<camera, detector, embedder>>,
                           !.enrolledAtCall = store[u].dir /\ store[u].meta
                                               /\ store[u].faces # <<>>]
      early == Precheck(u)
  IN /\ username' = u
     /\ frame_idx' = 0
     /\ now' = 0
     /\ calls' = calls + 1
     /\ leaked' = IF worker = "running" THEN leaked + 1 ELSE leaked
     /\ UNCHANGED <<camera, detector, embedder>>
     /\ IF early # "none"
          THEN /\ Return(early)
               /\ enrolled_embeddings' = <<>>
               /\ worker' = "none"
               /\ start_time' = 0
               /\ hist' = h0
          ELSE /\ enrolled_embeddings' = loaded.val
               /\ result' = "none"
               /\ start_time' = 0
               /\ IF models_loaded /\ camera_ready
                    THEN /\ pc' = "loop"
                         /\ worker' = "none"
                         /\ hist' = [h0 EXCEPT !.warmupEnd = 0]
                    ELSE /\ pc' = "caminit"
                         /\ worker' = "running"
                         /\ hist' = [h0 EXCEPT !.spawned = 1]

\* lib.rs:137-178: the worker builds a runtime, the detector and the embedder
\* and leaves Ok, an error, or dies of a panic
WorkerRun ==
  /\ worker = "running"
  /\ \E out \in {"ok", "err", "panicked"} : worker' = out
  /\ \E dt \in Ticks : now' = Min(MaxTime, now + dt)
  /\ UNCHANGED <<camera, detector, embedder, pc, username, enrolled_embeddings,
                 frame_idx, start_time, result, leaked, hist>>
  /\ UNCHANGED others

\* a worker left behind by an earlier call runs to its end
LeakedWorkerExit ==
  /\ leaked > 0
  /\ leaked' = leaked - 1
  /\ UNCHANGED <<camera, detector, embedder, pc, username, enrolled_embeddings,
                 frame_idx, start_time, result, worker, now, hist>>
  /\ UNCHANGED others

\* (variant: the caller goes straight to the frame loop)
AfterCameraInit_SkipJoin == "loop"

\* lib.rs:187-189: with the camera ready the caller goes on to join the worker
AfterCameraInit == "join"

\* lib.rs:181-185 with ensure_camera_ready (lib.rs:92-99): the `?` returns
\* without joining the worker
AuthCameraInit ==
  /\ pc = "caminit"
  /\ \E dt \in Ticks : now' = Min(MaxTime, now + dt)
  /\ IF camera # 0
       THEN /\ pc' = AfterCameraInit
            /\ UNCHANGED <<camera, result, hist>>
       ELSE \E ok \in BOOLEAN :
              IF ok THEN /\ camera' = calls
                         /\ pc' = AfterCameraInit
                         /\ hist' = [hist EXCEPT !.opened = hist.opened + 1]
                         /\ UNCHANGED result
                    ELSE /\ Return("Err(Capture)")
                         /\ UNCHANGED <<camera, hist>>
  /\ UNCHANGED <<detector, embedder, username, enrolled_embeddings, frame_idx,
                 start_time, worker, leaked>>
  /\ UNCHANGED others

\* whether join() can return: the worker thread has ended
Joinable == worker \in {"ok", "err", "panicked"}

\* lib.rs:189-206: join, take the result, install the models, take start_time
AuthJoin ==
  /\ pc = "join"
  /\ Joinable
  /\ worker' = "joined"
  /\ IF worker = "ok"
       THEN /\ detector' = calls
            /\ embedder' = calls
            /\ pc' = "loop"
            /\ start_time' = now
            /\ hist' = [hist EXCEPT !.warmupEnd = now, !.installed = TRUE]
            /\ UNCHANGED result
       ELSE /\ Return(IF worker = "panicked" THEN "Err(WorkerPanicked)" ELSE "Err(Model)")
            /\ UNCHANGED <<detector, embedder, start_time, hist>>
  /\ UNCHANGED <<camera, username, enrolled_embeddings, frame_idx, leaked, now>>
  /\ UNCHANGED others

\* ---------------------------------------------------------- the frame loop
\* whether time t is past the deadline of the running call
PastDeadline(t) == t - start_time > timeout

\* (variant: the loop gives up one iteration early)
LoopDone_Early(i) == i >= max_frames - 1

\* lib.rs:209, `for frame_idx in 0..max_frames`: the loop is over
LoopDone(i) == i >= max_frames

\* lib.rs:241, 245, 264, 268, 329, 340, 365: `continue`, or the end of the
\* loop body, takes the next index
NextIndex(i) == i + 1

\* (variant: a BadFrame ends the call as any capture error would)
OnBadFrame_Abort == "Err(Capture)"

\* lib.rs:221-241: the BadFrame arm ends in `continue`
OnBadFrame == "continue"

\* (variant: a BadFrame is "not counted", as the log line at lib.rs:223 says)
AfterBadFrame_NotCounted(i) == i

\* lib.rs:241: `continue` out of the BadFrame arm takes the next index
AfterBadFrame(i) == NextIndex(i)

\* an iteration begins and the deadline poll lets it pass (lib.rs:209-216)
Proceed == pc = "loop" /\ ~LoopDone(frame_idx) /\ ~TimedOut(now - start_time)

\* the history of an iteration that begins with a quality-gated capture of d
Gated(h, d) ==
  [h EXCEPT !.gated = Min(max_frames + 1, h.gated + 1),
            !.lateGated = h.lateGated \/ PastDeadline(now)]

\* lib.rs:367-368: the loop is exhausted without a match
LoopExit ==
  /\ pc = "loop"
  /\ LoopDone(frame_idx)
  /\ Return("Ok(false)")
  /\ UNCHANGED <<camera, detector, embedder, username, enrolled_embeddings,
                 frame_idx, start_time, worker, leaked, now, hist>>
  /\ UNCHANGED others

\* lib.rs:213-216: the poll at the top of an iteration finds the deadline passed
IterTimeout ==
  /\ pc = "loop"
  /\ ~LoopDone(frame_idx)
  /\ TimedOut(now - start_time)
  /\ Return("Err(Timeout)")
  /\ UNCHANGED <<camera, detector, embedder, username, enrolled_embeddings,
                 frame_idx, start_time, worker, leaked, now, hist>>
  /\ UNCHANGED others

\* lib.rs:219-242: the gated capture answers BadFrame; with save_screenshots
\* and a debug directory (lib.rs:225-226) one more, unchecked frame is
\* captured (lib.rs:228) and saved; then `continue`
IterBadFrame ==
  /\ Proceed
  /\ \E d \in Frames, dt \in Ticks :
       /\ capture_frame(TRUE, d) = "BadFrame"
       /\ LET t1 == Min(MaxTime, now + dt)
              h1 == [Observe(Gated(hist, d), d, TRUE) EXCEPT !.allNoMatch = FALSE]
          IN \/ /\ ~save_screenshots
                /\ now' = t1
                /\ hist' = h1
             \/ /\ save_screenshots
                /\ \E dirOk \in BOOLEAN :
                     IF ~dirOk
                       THEN now' = t1 /\ hist' = h1
                       ELSE \E raw \in Deliveries, dt2 \in Ticks :
                              /\ now' = Min(MaxTime, t1 + dt2)
                              /\ hist' = [Observe(h1, raw, FALSE) EXCEPT
                                            !.lateRaw = h1.lateRaw \/ PastDeadline(t1)]
  /\ IF OnBadFrame = "continue"
       THEN /\ frame_idx' = AfterBadFrame(frame_idx)
            /\ UNCHANGED <<pc, result>>
       ELSE /\ Return(OnBadFrame)
            /\ UNCHANGED frame_idx
  /\ UNCHANGED <<camera, detector, embedder, username, enrolled_embeddings,
                 start_time, worker, leaked>>
  /\ UNCHANGED others

\* lib.rs:243-246: any other capture error; `continue`
IterCaptureError ==
  /\ Proceed
  /\ capture_frame(TRUE, StreamError) = "Err"
  /\ \E dt \in Ticks : now' = Min(MaxTime, now + dt)
  /\ hist' = [Observe(Gated(hist, StreamError), StreamError, TRUE)
                EXCEPT !.allNoMatch = FALSE]
  /\ frame_idx' = NextIndex(frame_idx)
  /\ UNCHANGED <<camera, detector, embedder, pc, username, enrolled_embeddings,
                 start_time, result, worker, leaked>>
  /\ UNCHANGED others

\* what lib.rs:249-364 make of an accepted frame d: "continue", "Ok(true)" or
\* the error of ensure_debug_dir (lib.rs:305-310)
Pipeline(d, dirOk) ==
  IF d.det # "faces" THEN "continue"
  ELSE IF save_screenshots /\ frame_idx = 0 /\ ~dirOk THEN "Err(Other)"
  ELSE IF ~d.al THEN "continue"
  ELSE IF d.emb = NoEmb THEN "continue"
  ELSE IF find_best_match(d.emb, enrolled_embeddings, threshold).found
    THEN "Ok(true)"
  ELSE "continue"

\* lib.rs:219-220 and 249-364: the gated capture succeeds and the frame goes
\* through detection, the debug screenshot, alignment, embedding and matching
IterFrame ==
  /\ Proceed
  /\ \E d \in Frames, dt \in Ticks,
        dirOk \in IF save_screenshots /\ frame_idx = 0 THEN BOOLEAN ELSE {TRUE} :
       /\ capture_frame(TRUE, d) = "Ok"
       /\ now' = Min(MaxTime, now + dt)
       /\ LET out == Pipeline(d, dirOk)
              embedded == d.det = "faces" /\ d.al /\ d.emb # NoEmb
                          /\ out # "Err(Other)"
              h1 == Observe(Gated(hist, d), d, TRUE)
          IN /\ hist' = [h1 EXCEPT
                           !.final = IF out = "continue" THEN StreamError ELSE d,
                           !.allNoMatch = h1.allNoMatch /\ embedded /\ out = "continue",
                           !.lateMatch = out = "Ok(true)"
                                         /\ PastDeadline(Min(MaxTime, now + dt))]
             /\ IF out = "continue"
                  THEN /\ frame_idx' = NextIndex(frame_idx)
                       /\ UNCHANGED <<pc, result>>
                  ELSE /\ Return(out)
                       /\ UNCHANGED frame_idx
  /\ UNCHANGED <<camera, detector, embedder, username, enrolled_embeddings,
                 start_time, worker, leaked>>
  /\ UNCHANGED others

\* ------------------------------------------------- the enrolling process
\* `nihao remove` in another process (main.rs:133-135, store.rs:155-183)
EnvRemove ==
  /\ \E u \in Users, id \in FaceIds :
       /\ store[u].dir
       /\ position(load_metadata(u), id) # 0
       /\ store' = remove_embedding(u, id)
  /\ UNCHANGED <<coreVars, pamVars, auxVars, save_screenshots, calls>>

\* ------------------------------------------------------ direct invocation
\* `nihao test` (main.rs:172-175): authenticate on an owned FaceRecognizer
DirectCall ==
  /\ pc \in {"idle", "done"}
  /\ calls < MaxCalls
  /\ \E u \in Users : AuthBegin(u)
  /\ UNCHANGED <<store, pamVars, auxVars, save_screenshots>>

\* alice and bob each enrolled once (face_0), carol never
Enrolled(e) ==
  [dir |-> TRUE, meta |-> TRUE, faces |-> <<[id |-> 0, label |-> "none"]>>,
   files |-> [i \in FaceIds |-> IF i = 0 THEN serialize(e) ELSE NoFile]]

InitStore ==
  [u \in Users |-> IF u = "alice" THEN Enrolled(E1)
                   ELSE IF u = "bob" THEN Enrolled(E2)
                   ELSE EmptyUser]

\* no save_embedding or remove_embedding call is under way
NoWriter == [op |-> "none"]

\* no store, vault or matcher operation has been called
NoOp == [op |-> "none"]

\* nothing stored through store_password yet
NoneKept == [pw |-> "none", stored |-> FALSE]

InitAux ==
  /\ last = NoOp
  /\ kept = [u \in Users |-> NoneKept]
  /\ writer = NoWriter

\* two invocations of pam_sm_authenticate, on two threads of one process
Requests == {1, 2}

\* no enroll_with_debug call is running
\* (face_found: the frame of the attempt before had a detected face)
NoEnroll ==
  [user |-> "none", label |-> "none", attempt |-> 0, face_found |-> FALSE]

InitCore ==
  /\ store = InitStore
  /\ enroll = NoEnroll
  /\ camera = 0 /\ detector = 0 /\ embedder = 0
  /\ save_screenshots \in BOOLEAN
  /\ pc = "idle" /\ username = "alice" /\ enrolled_embeddings = <<>>
  /\ frame_idx = 0 /\ start_time = 0 /\ result = "none"
  /\ worker = "none" /\ leaked = 0
  /\ now = 0 /\ calls = 0
  /\ hist = NoHist

InitPam ==
  /\ lock = 0 /\ poisoned = FALSE
  /\ ppc = [r \in Requests |-> "idle"]
  /\ puser = [r \in Requests |-> "alice"]
  /\ perr = [r \in Requests |-> "none"]
  /\ presult = [r \in Requests |-> "none"]
  /\ authtok = [r \in Requests |-> ""]
  /\ coreRes = [r \in Requests |-> "none"]
  /\ constructed = 0

\* FaceRecognizer::new (lib.rs:50-63) has run; the plugin is not in use
Init ==
  /\ InitCore
  /\ InitPam
  /\ recognizer = TRUE
  /\ vault = [u \in Users |-> <<>>]
  /\ InitAux

Next ==
  \/ DirectCall
  \/ WorkerRun
  \/ LeakedWorkerExit
  \/ AuthCameraInit
  \/ AuthJoin
  \/ LoopExit
  \/ IterTimeout
  \/ IterBadFrame
  \/ IterCaptureError
  \/ IterFrame
  \/ EnvRemove

Spec == Init /\ [][Next]_vars

\* --------------------------------------------------------- Password Vault
\* derive_encryption_key: SHA-256 of the machine id and the application salt
MachineKey == "sha256(machine-id|nihao-face-auth-v1)"

\* AES-256-GCM under key k and nonce n: the ciphertext opens only under both
encrypt(k, n, p) == <<k, n, p>>
decrypt(k, n, c) ==
  IF Len(c) = 3 /\ c[1] = k /\ c[2] = n
    THEN [ok |-> TRUE, val |-> c[3]]
    ELSE [ok |-> FALSE, val |-> "Decryption"]

\* (variant: the nonce written to the file is not the one encrypted under)
sealed_OtherNonce(p, n) == <<encrypt(MachineKey, n, p), "n0", 1>>

\* EncryptedPassword {ciphertext, nonce, version: 1} as written by store_password
sealed(p, n) == <<encrypt(MachineKey, n, p), n, 1>>

\* has_password: the file exists
has_password(u) == vault[u] # <<>>

\* load_password: NotFound without the file, else decrypt under the machine key
load_password(u) ==
  IF vault[u] = <<>> THEN [ok |-> FALSE, val |-> "NotFound"]
  ELSE decrypt(MachineKey, vault[u][2], vault[u][1])

\* CString::new fails on an interior NUL byte
NulPassword == "pw\\0bob"
cstring_ok(p) == p # NulPassword

\* the vaults the plugin may find: alice's and bob's entries valid, or alice's
\* sealed under another key and bob's holding a NUL byte; carol's absent
InitVaults ==
  {[u \in Users |-> IF u = "alice" THEN a ELSE IF u = "bob" THEN b ELSE <<>>] :
     a \in {sealed("pw_alice", "n1")}, b \in {sealed("pw_bob", "n2")}}
  \cup {[u \in Users |-> IF u = "alice" THEN <<encrypt("flipped", "n1", "pw_alice"), "n1", 1>>
                          ELSE IF u = "bob" THEN sealed(NulPassword, "n2") ELSE <<>>]}

\* ------------------------------------------------------------- PAM plugin
\* (variant: lock() returns at once)
LockFree_Always == TRUE

\* pam lib.rs:83-85, Mutex::lock returns once no other thread holds the lock
LockFree == lock = 0

\* the MutexGuard is dropped when authenticate_impl returns or unwinds
Unlock(r) == lock' = IF lock = r THEN 0 ELSE lock

\* (variant: a caught panic is reported as any other failure)
PamError_NoServiceErr(e) == IF e = "Ok" THEN "SUCCESS" ELSE "AUTH_ERR"

\* pam lib.rs:33-46: the PamError for what authenticate_impl did
PamError(e) ==
  IF e = "Ok" THEN "SUCCESS"
  ELSE IF e = "panic" THEN "SERVICE_ERR"
  ELSE "AUTH_ERR"

\* authenticate_impl returns e and PamNihao::authenticate maps it
PamReturn(r, e) ==
  /\ perr' = [perr EXCEPT ![r] = e]
  /\ presult' = [presult EXCEPT ![r] = PamError(e)]
  /\ ppc' = [ppc EXCEPT ![r] = "done"]

\* pam lib.rs:18-80: a new invocation (numbered in order of arrival) resolves
\* the user (SUDO_USER, else the host's user) and loads the configuration;
\* puser is the user it goes on with
PamBegin(r) ==
  /\ ppc[r] = "idle"
  /\ \A q \in Requests : q < r => ppc[q] # "idle"
  /\ authtok' = [authtok EXCEPT ![r] = ""]
  /\ coreRes' = [coreRes EXCEPT ![r] = "none"]
  /\ \/ /\ \E e \in {"Failed to determine username", "Failed to load config"} :
             PamReturn(r, e)
        /\ UNCHANGED puser
     \/ \E u \in Users :
          /\ puser' = [puser EXCEPT ![r] = u]
          /\ ppc' = [ppc EXCEPT ![r] = "wantlock"]
          /\ UNCHANGED <<perr, presult>>
  /\ UNCHANGED <<auxVars, coreVars, store, save_screenshots, calls, recognizer, lock,
                 poisoned, vault, constructed>>

\* pam lib.rs:83-85: take the lock on RECOGNIZER; a poisoned lock is an error
PamLock(r) ==
  /\ ppc[r] = "wantlock"
  /\ LockFree
  /\ IF poisoned
       THEN PamReturn(r, "Failed to lock recognizer") /\ UNCHANGED lock
       ELSE /\ lock' = r
            /\ ppc' = [ppc EXCEPT ![r] = "locked"]
            /\ UNCHANGED <<perr, presult>>
  /\ UNCHANGED <<auxVars, coreVars, store, save_screenshots, calls, recognizer, poisoned,
                 puser, authtok, coreRes, vault, constructed>>

\* pam lib.rs:87-96: build the FaceRecognizer on first use
PamConstruct(r) ==
  /\ ppc[r] = "locked"
  /\ IF recognizer
       THEN /\ ppc' = [ppc EXCEPT ![r] = "ready"]
            /\ UNCHANGED <<recognizer, constructed, perr, presult, lock>>
       ELSE \E ok \in BOOLEAN :
              IF ok THEN /\ recognizer' = TRUE
                         /\ constructed' = constructed + 1
                         /\ ppc' = [ppc EXCEPT ![r] = "ready"]
                         /\ UNCHANGED <<perr, presult, lock>>
                    ELSE /\ PamReturn(r, "Failed to create recognizer")
                         /\ Unlock(r)
                         /\ UNCHANGED <<recognizer, constructed>>
  /\ UNCHANGED <<auxVars, coreVars, store, save_screenshots, calls, poisoned, puser,
                 authtok, coreRes, vault>>

\* pam lib.rs:99-109: the plugin's own has_faces check, then the core call
PamCallCore(r) ==
  /\ ppc[r] = "ready"
  /\ IF ~has_faces(puser[r])
       THEN /\ PamReturn(r, "No enrolled faces")
            /\ Unlock(r)
            /\ UNCHANGED <<coreVars, calls>>
       ELSE /\ AuthBegin(puser[r])
            /\ ppc' = [ppc EXCEPT ![r] = "core"]
            /\ UNCHANGED <<perr, presult, lock>>
  /\ UNCHANGED <<auxVars, store, save_screenshots, recognizer, poisoned, puser, authtok,
                 coreRes, vault, constructed>>

\* the core call's frame is gone once it has returned or unwound: its locals
\* and its return value are dropped, the recognizer's handles stay
CallOver ==
  /\ username' = "alice" /\ enrolled_embeddings' = <<>>
  /\ frame_idx' = 0 /\ start_time' = 0 /\ result' = "none"
  /\ now' = 0
  /\ hist' = NoHist
  /\ UNCHANGED <<camera, detector, embedder, worker, leaked>>

\* a panic inside the running core call (an unwrap, an index, a library
\* assertion) unwinds through authenticate_impl, poisoning the lock as the
\* guard is dropped, and is caught by catch_unwind (pam lib.rs:29-31, 42-45)
PamPanic(r) ==
  /\ ppc[r] = "core"
  /\ pc \in {"caminit", "join", "loop"}
  /\ pc' = "panicked"
  /\ poisoned' = TRUE
  /\ Unlock(r)
  /\ coreRes' = [coreRes EXCEPT ![r] = "panic"]
  /\ PamReturn(r, "panic")
  /\ CallOver
  /\ UNCHANGED <<auxVars, store, save_screenshots, calls, recognizer, puser, authtok,
                 vault, constructed>>

\* pam lib.rs:111, the plugin's own deadline over the whole core call
PluginTimedOut(elapsed) == elapsed > timeout

\* (variant: every result of the core reaches the publishing branch)
MayPublish_Always(res) == TRUE

\* pam lib.rs:116-117: only Ok(true) reaches the publishing branch
MayPublish(res) == res = "Ok(true)"

\* pam lib.rs:121: the vault entry looked up is that of the resolved user
VaultUser(r) == puser[r]

\* pam lib.rs:111-163: the plugin's deadline, the match on the core's result,
\* and on Ok(true) the vault lookup and set_authtok (which may itself fail)
PamFinish(r) ==
  /\ ppc[r] = "core"
  /\ pc = "done"
  /\ coreRes' = [coreRes EXCEPT ![r] = result]
  /\ Unlock(r)
  /\ IF PluginTimedOut(now)
       THEN PamReturn(r, "Timeout") /\ UNCHANGED authtok
       ELSE IF MayPublish(result)
         THEN /\ PamReturn(r, "Ok")
              /\ LET u == VaultUser(r)
                     pw == load_password(u)
                 IN IF has_password(u) /\ pw.ok /\ cstring_ok(pw.val)
                      THEN \E set \in BOOLEAN :
                             authtok' = [authtok EXCEPT ![r] = IF set THEN pw.val ELSE ""]
                      ELSE UNCHANGED authtok
       ELSE IF result = "Ok(false)"
         THEN PamReturn(r, "Face not recognized") /\ UNCHANGED authtok
       ELSE PamReturn(r, "Authentication error") /\ UNCHANGED authtok
  /\ pc' = "idle"
  /\ CallOver
  /\ UNCHANGED <<auxVars, store, save_screenshots, calls, recognizer, poisoned, puser,
                 vault, constructed>>

\* the process starts with RECOGNIZER empty
InitPlugin ==
  /\ InitCore
  /\ InitPam
  /\ recognizer = FALSE
  /\ vault \in InitVaults
  /\ InitAux

NextPam ==
  \/ \E r \in Requests : PamBegin(r)
  \/ \E r \in Requests : PamLock(r)
  \/ \E r \in Requests : PamConstruct(r)
  \/ \E r \in Requests : PamCallCore(r)
  \/ \E r \in Requests : PamPanic(r)
  \/ \E r \in Requests : PamFinish(r)
  \/ WorkerRun
  \/ LeakedWorkerExit
  \/ AuthCameraInit
  \/ AuthJoin
  \/ LoopExit
  \/ IterTimeout
  \/ IterBadFrame
  \/ IterCaptureError
  \/ IterFrame

SpecPam == InitPlugin /\ [][NextPam]_vars

\* the calling thread and the warm-up worker keep running: a step of the
\* call that can be taken is taken, and a capture returns
SpecFair ==
  /\ Spec
  /\ WF_vars(WorkerRun)
  /\ WF_vars(AuthCameraInit)
  /\ WF_vars(AuthJoin)
  /\ WF_vars(LoopExit \/ IterTimeout \/ IterBadFrame \/ IterCaptureError \/ IterFrame)

\* ================================================================ claims
\* the frame loop of the running call was entered
LoopEntered == hist.warmupEnd >= 0

\* C1: authenticate returns Ok(true) only from an iteration whose quality-gated
\* capture, detection, alignment and embedding all succeeded and whose
\* embedding has similarity >= matching.threshold with an embedding stored for
\* that user when the call began.
C1_TrueOnlyOnMatch ==
  (pc = "done" /\ result = "Ok(true)") =>
    LET f == hist.final
    IN /\ hist.gated >= 1
       /\ capture_frame(TRUE, f) = "Ok"
       /\ f.det = "faces" /\ f.al /\ f.emb # NoEmb
       /\ \E e \in hist.stored : cosine_similarity(f.emb, e) >= threshold

\* a call that returned true on a similarity of exactly the threshold
C1_Witness ==
  /\ pc = "done" /\ result = "Ok(true)"
  /\ hist.final.emb # NoEmb
  /\ \A e \in hist.stored : cosine_similarity(hist.final.emb, e) = threshold

\* C3: for a user without a directory or with an empty manifest authenticate
\* fails with NoEnrolledFaces before any warm-up: no worker spawned, no camera
\* opened, no frame captured, the recognizer's handles as they were.
C3_NoEnrolledFacesFirst ==
  (pc = "done" /\ ~hist.enrolledAtCall) =>
    /\ result = "Err(NoEnrolledFaces)"
    /\ hist.spawned = 0 /\ hist.opened = 0 /\ hist.gated = 0
    /\ worker # "running"
    /\ <<camera, detector, embedder>> = hist.handles

\* the call found a user directory whose manifest had been emptied
C3_Witness ==
  /\ pc = "done" /\ ~hist.enrolledAtCall
  /\ store[username].dir /\ store[username].meta
  /\ result = "Err(NoEnrolledFaces)"

\* C4 (as amended): a BadFrame never ends the call, whatever
\* debug.save_screenshots is; and with debug.save_screenshots off, when the
\* stream delivers k < max_frames frames that fail the quality gate and then a
\* good frame that matches, that frame is consumed by a quality-gated capture
\* and the call returns true.
C4_BadFrameRetry ==
  (pc = "done" /\ LoopEntered) =>
    /\ hist.first = "none" =>
         /\ result \in {"Ok(false)", "Err(Timeout)"}
         /\ result = "Ok(false)" => hist.k >= max_frames
    /\ (~save_screenshots /\ hist.first \in {"match_gated", "match_raw"}
          /\ hist.k < max_frames) =>
         (hist.first = "match_gated" /\ result = "Ok(true)")

\* max_frames - 1 bad frames, then the matching frame, with the debug images off
C4_Witness ==
  /\ pc = "done" /\ ~save_screenshots
  /\ hist.first = "match_gated" /\ hist.k = max_frames - 1
  /\ result = "Ok(true)"

\* C4 as stated, for every setting of debug.save_screenshots (and granting
\* that the debug directory can be created)
C4_AsStated ==
  (pc = "done" /\ LoopEntered /\ result \notin {"Err(Timeout)", "Err(Other)"}
     /\ hist.first \in {"match_gated", "match_raw"} /\ hist.k < max_frames) =>
    (hist.first = "match_gated" /\ result = "Ok(true)")

\* C5: when every iteration embeds a good frame that matches nothing and the
\* deadline does not expire, authenticate returns Ok(false) after exactly
\* max_frames iterations.
C5_ThresholdRejection ==
  (pc = "done" /\ LoopEntered /\ hist.allNoMatch /\ result # "Err(Timeout)") =>
    /\ result = "Ok(false)"
    /\ hist.gated = max_frames
    /\ frame_idx = max_frames

\* max_frames good frames, none of them matching
C5_Witness ==
  /\ pc = "done" /\ LoopEntered /\ hist.allNoMatch
  /\ result = "Ok(false)" /\ hist.gated = max_frames

C7_State ==
  /\ (LoopEntered /\ pc \in {"loop", "done"}) => start_time = hist.warmupEnd
  /\ (pc = "done" /\ result = "Err(Timeout)") =>
       (LoopEntered /\ now - start_time > timeout /\ hist.gated = frame_idx)
  /\ ~hist.lateGated
  /\ hist.lateMatch => (pc = "done" /\ result = "Ok(true)")

\* an iteration that begins past the deadline captures nothing and, if the
\* call ends there, ends it with Timeout
C7_Step ==
  (pc = "loop" /\ ~LoopDone(frame_idx) /\ now - start_time > timeout) =>
    /\ hist' = hist
    /\ pc' = "done" => result' = "Err(Timeout)"

\* C7 (as amended): t_start is taken when the warm-up has ended; the first
\* iteration that begins with now - t_start > timeout fails with Timeout
\* before any capture; no quality-gated capture is started past the deadline;
\* an iteration begun in time is not cancelled, and a match it finds past the
\* deadline still returns true.
C7_Deadline == [](C7_State) /\ [][C7_Step]_vars

\* a match found after the deadline had passed, returned as true
C7_Witness == hist.lateMatch /\ pc = "done" /\ result = "Ok(true)" /\ now - start_time > timeout

\* C7 as stated: no frame capture at all is started past the deadline
C7_AsStated == C7_State /\ ~hist.lateRaw

\* C8: a call spawns at most one worker, and its frame loop runs only once
\* that worker has ended, been joined, and its detector and embedder have
\* been installed.
C8_ForkJoin ==
  (pc = "loop" \/ hist.gated > 0) =>
    /\ worker \in {"none", "joined"}
    /\ hist.spawned <= 1
    /\ hist.spawned = 1 => (hist.installed /\ detector = calls /\ embedder = calls)
    /\ detector # 0 /\ embedder # 0 /\ camera # 0

\* the frame loop at work after a warm-up that spawned the worker
C8_Witness ==
  /\ pc = "loop" /\ hist.spawned = 1 /\ hist.installed
  /\ worker = "joined" /\ hist.gated >= 1

\* C2: the plugin publishes a secret only in an invocation whose core
\* authenticate call returned Ok(true), and the secret it publishes is the
\* vault entry of the user that call authenticated; after false or an error
\* nothing is published.
C2_PublishOnlyAfterMatch ==
  \A r \in Requests :
    authtok[r] # "" =>
      /\ coreRes[r] = "Ok(true)"
      /\ presult[r] = "SUCCESS"
      /\ load_password(puser[r]).ok
      /\ authtok[r] = load_password(puser[r]).val

\* two invocations, each having published the secret of its own user
C2_Witness ==
  \E r, q \in Requests :
    /\ puser[r] = "alice" /\ authtok[r] = "pw_alice"
    /\ puser[q] = "bob" /\ authtok[q] = "pw_bob"

\* request r holds the Recognizer
InUse(r) == ppc[r] \in {"locked", "ready", "core"}

\* C9: requests are serialized by the lock on the Recognizer: no two of them
\* use it at once, a request holds the lock from acquiring it until its
\* result is determined, and the Recognizer is constructed at most once.
C9_Serialized ==
  /\ \A r, q \in Requests : (InUse(r) /\ InUse(q)) => r = q
  /\ \A r \in Requests : InUse(r) <=> lock = r
  /\ pc \in {"caminit", "join", "loop", "done"} =>
       \E r \in Requests : ppc[r] = "core" /\ lock = r
  /\ constructed <= 1

\* one request in the frame loop, the other waiting for the lock, the
\* Recognizer built once
C9_Witness ==
  \E r, q \in Requests :
    /\ ppc[r] = "core" /\ pc = "loop" /\ frame_idx >= 1
    /\ ppc[q] = "wantlock"
    /\ constructed = 1

\* C10 (as amended): a panic on the thread of the plugin's authenticate call
\* is caught at the plugin boundary and reported as SERVICE_ERR; SUCCESS is
\* reported only after Ok(true); every error, a panic of the warm-up worker
\* (which the core's join turns into an error) included, is reported as
\* AUTH_ERR.
C10_PanicIsServiceErr ==
  \A r \in Requests :
    ppc[r] = "done" =>
      /\ presult[r] \in {"SUCCESS", "AUTH_ERR", "SERVICE_ERR"}
      /\ coreRes[r] = "panic" <=> presult[r] = "SERVICE_ERR"
      /\ presult[r] = "SUCCESS" => coreRes[r] = "Ok(true)"
      /\ coreRes[r] = "Err(WorkerPanicked)" => presult[r] = "AUTH_ERR"

\* a panic in the frame loop, reported as SERVICE_ERR
C10_Witness ==
  \E r \in Requests :
    /\ ppc[r] = "done" /\ coreRes[r] = "panic"
    /\ presult[r] = "SERVICE_ERR" /\ poisoned /\ lock = 0
    /\ camera # 0 /\ detector # 0

\* C10 as stated: any panic raised inside the core is reported as SERVICE_ERR
C10_AsStated ==
  \A r \in Requests :
    (ppc[r] = "done" /\ coreRes[r] \in {"panic", "Err(WorkerPanicked)"}) =>
      presult[r] = "SERVICE_ERR"

\* C11 as stated: the plugin reports SUCCESS if and only if the core's
\* authenticate call for the resolved user returned Ok(true), a first call
\* whose warm-up outlasts matching.timeout_secs included.
C11_AsStated ==
  \A r \in Requests :
    ppc[r] = "done" => (presult[r] = "SUCCESS" <=> coreRes[r] = "Ok(true)")

\* ------------------------------------------------- Face Store operations
\* (variant: the user directory is not looked at)
remove_result_NoDirCheck(u, face_id) ==
  IF position(load_metadata(u), face_id) = 0 THEN "FaceNotFound" ELSE "Ok"

\* remove_embedding's result: UserNotFound without a user directory
\* (store.rs:156-159), FaceNotFound when no record has the id (164-169)
remove_result(u, face_id) ==
  IF ~store[u].dir THEN "UserNotFound"
  ELSE IF position(load_metadata(u), face_id) = 0 THEN "FaceNotFound"
  ELSE "Ok"

\* the users whose records remove_embedding is called on: one enrolled, one
\* without a user directory; new faces are saved for the latter
StoreUsers == {"alice", "carol"}
Enrollees == {"carol"}

\* a call of save_embedding(u, e, l) that returned Ok(face_<id>)
StoreSave ==
  /\ \E u \in Enrollees, e \in Embeddings, l \in Labels :
       /\ Len(load_metadata(u)) < MaxFaces
       /\ store' = save_embedding(u, e, l)
       /\ last' = [op |-> "save_embedding", user |-> u, embedding |-> e,
                   label |-> l, ok |-> TRUE, res |-> Len(load_metadata(u)),
                   before |-> load_embeddings(u)]
  /\ UNCHANGED <<coreVars, pamVars, save_screenshots, calls, kept, writer>>

\* a call of remove_embedding(u, face_id), whatever it returned
StoreRemove ==
  /\ \E u \in StoreUsers, face_id \in FaceIds :
       LET r == remove_result(u, face_id)
           after == IF r = "Ok" THEN remove_embedding(u, face_id) ELSE store
       IN /\ store' = after
          /\ last' = [op |-> "remove_embedding", user |-> u,
                      face_id |-> face_id, ok |-> (r = "Ok"), res |-> r,
                      had_dir |-> store[u].dir,
                      absent |-> (position(list_faces(u), face_id) = 0),
                      changed |-> (after # store)]
  /\ UNCHANGED <<coreVars, pamVars, save_screenshots, calls, kept, writer>>

\* the read-only calls: has_faces and load_embeddings as authenticate makes
\* them (lib.rs:105-113), list_faces as `nihao list` does
StoreRead ==
  /\ \E u \in Users :
       last' = [op |-> "read", user |-> u, ok |-> TRUE,
                has_faces |-> has_faces(u), list_faces |-> list_faces(u),
                load_embeddings |-> load_embeddings(u)]
  /\ UNCHANGED <<store, coreVars, pamVars, save_screenshots, calls, kept, writer>>

\* the frames the enrolment search can stop at: they pass the quality check
\* and the detector finds a face in them (lib.rs:403-413)
FaceFrames == {d \in Frames : capture_frame(TRUE, d) = "Ok" /\ d.det = "faces"}
\* the step at which enroll_with_debug returns (lib.rs:378-485): handle
\* initialisation, the frame search, the debug directory, alignment, the
\* embedder, or, all of them passed, after save_embedding
enroll_stage(init_ok, found, d, explicit_path, dir_ok) ==
  IF ~init_ok THEN "init"
  ELSE IF ~found THEN "search"
  ELSE IF save_screenshots /\ ~explicit_path /\ ~dir_ok THEN "debug"
  ELSE IF ~d.al THEN "align"
  ELSE IF d.emb = NoEmb THEN "embed"
  ELSE "save"

\* (variant: the embedding is saved as soon as a face frame is found)
enroll_reaches_save_Early(init_ok, found, d, explicit_path, dir_ok) ==
  init_ok /\ found

\* whether control reaches save_embedding at lib.rs:480
enroll_reaches_save(init_ok, found, d, explicit_path, dir_ok) ==
  enroll_stage(init_ok, found, d, explicit_path, dir_ok) = "save"

\* what the environment does to one enrolment: the handles cannot be built,
\* none of the 60 attempts (lib.rs:393) delivers a face frame, the debug
\* directory cannot be created, a debug path is passed, or none of these
EnrollEnvs == {"init_fails", "no_face", "dir_fails", "explicit_path", "fine"}

\* enroll_with_debug(u, l, debug_path) in the enrolling process; d is the
\* first face frame the search meets, if it meets one
Enroll ==
  /\ \E u \in Enrollees, l \in Labels, env \in EnrollEnvs, d \in FaceFrames :
       LET init_ok == env # "init_fails"
           found == env # "no_face"
           explicit_path == (env = "explicit_path")
           dir_ok == env # "dir_fails"
           stage == enroll_stage(init_ok, found, d, explicit_path, dir_ok)
           saves == enroll_reaches_save(init_ok, found, d, explicit_path,
                                        dir_ok)
           after == IF saves THEN save_embedding(u, d.emb, l) ELSE store
       IN /\ saves => Len(load_metadata(u)) < MaxFaces
          /\ store' = after
          /\ last' = [op |-> "enroll", user |-> u, label |-> l,
                      embedding |-> d.emb, stage |-> stage,
                      ok |-> (stage = "save"), res |-> Len(load_metadata(u)),
                      changed |-> (after # store)]
  /\ UNCHANGED <<coreVars, pamVars, save_screenshots, calls, kept, writer>>

NextStore ==
  \/ StoreSave
  \/ StoreRemove
  \/ StoreRead
  \/ Enroll

SpecStore == Init /\ [][NextStore]_vars

\* a save_embedding that returned an id, called directly or by enroll
Saved == last.op \in {"save_embedding", "enroll"} /\ last.ok

\* C12 as stated: in every store state that save_embedding and
\* remove_embedding calls lead to, once save_embedding(u, e, l) has returned
\* the id f, list_faces(u) holds exactly one record with id f, that record
\* has label l, and load_embeddings(u) holds an embedding equal to e.
C12_AsStated ==
  Saved =>
    LET m == list_faces(last.user)
        hits == {i \in 1 .. Len(m) : m[i].id = last.res}
        loaded == load_embeddings(last.user)
    IN /\ Cardinality(hits) = 1
       /\ \A i \in hits : m[i].label = last.label
       /\ loaded.ok
       /\ \E i \in 1 .. Len(loaded.val) : loaded.val[i] = last.embedding

\* C13 as stated: after any sequence of completed save_embedding and
\* remove_embedding calls, every record of a user's manifest has its sibling
\* file, so that load_embeddings succeeds for every user who has a directory.
C13_AsStated ==
  \A u \in Users :
    LET m == list_faces(u)
    IN /\ \A i \in 1 .. Len(m) : store[u].files[m[i].id] # NoFile
       /\ store[u].dir => load_embeddings(u).ok

\* C14: when load_embeddings(u) succeeds it returns one embedding per record
\* of the manifest, in manifest order: the i-th embedding is the content of
\* the file named by the i-th record of list_faces(u).
C14_ManifestOrder ==
  (last.op = "read" /\ last.load_embeddings.ok) =>
    LET m == last.list_faces
        v == last.load_embeddings.val
    IN /\ Len(v) = Len(m)
       /\ \A i \in 1 .. Len(m) :
            serialize(v[i]) = store[last.user].files[m[i].id]

\* a load of two records whose files hold different embeddings
C14_Witness ==
  /\ last.op = "read" /\ last.load_embeddings.ok
  /\ Len(last.list_faces) = 2
  /\ last.list_faces[1].id # last.list_faces[2].id
  /\ last.load_embeddings.val[1] # last.load_embeddings.val[2]

\* C15: in every store state, remove_embedding(user, face_id) with a face_id
\* that no record of the user's manifest has fails and leaves the manifest,
\* the files and the directory as they were; the error is FaceNotFound when
\* the user directory exists and UserNotFound when it does not.
C15_RemoveAbsent ==
  (last.op = "remove_embedding" /\ last.absent) =>
    /\ ~last.ok
    /\ last.res = IF last.had_dir THEN "FaceNotFound" ELSE "UserNotFound"
    /\ ~last.changed

\* remove_embedding was called for a user who has no directory
C15_Witness ==
  last.op = "remove_embedding" /\ last.absent /\ ~last.had_dir

\* C15 as stated: for every store state, a user with no directory included,
\* remove_embedding(user, face_id) with face_id not in the manifest fails
\* with FaceNotFound and leaves the manifest and the files unchanged.
C15_AsStated ==
  (last.op = "remove_embedding" /\ last.absent) =>
    (last.res = "FaceNotFound" /\ ~last.changed)

\* C16: only a successful enroll (save_embedding) and a successful
\* remove_embedding change the store: has_faces, list_faces and
\* load_embeddings leave every user's manifest, files and directory as they
\* were, and so does an enroll that fails (no face frame in the 60 attempts,
\* an alignment error, an embedder error) and a remove_embedding that fails.
C16_OnlyEnrollAndRemoveMutate ==
  [][store' # store =>
       (last'.op \in {"save_embedding", "enroll", "remove_embedding"}
        /\ last'.ok)]_vars

\* an enroll that found a face frame and failed at the alignment
C16_Witness ==
  last.op = "enroll" /\ ~last.ok /\ last.stage = "align" /\ ~last.changed

\* the steps of an authenticate call, whatever it returns, leave the store
\* as it is (checked under Spec, where faces are removed during the call)
AuthenticateLeavesStore == [][coreVars' # coreVars => store' = store]_vars

\* ------------------------------------------------ Password Vault operations
Passwords == {"pw_alice", "pw_bob"}
\* the nonces OsRng may deliver (password.rs:58-60)
Nonces == {"n1", "n2"}

\* store_password up to fs::write: <user>.key holds the sealed password
store_password(u, p, n) == [vault EXCEPT ![u] = sealed(p, n)]

\* remove_password: fs::remove_file
remove_password(u) == [vault EXCEPT ![u] = <<>>]

\* how far a store_password call gets: an error before fs::write returns
\* (machine id, create_dir_all, write), an error of fs::set_permissions after
\* the file is written, or none
StoreEnvs == {"fails_before_write", "fails_at_set_permissions", "fine"}

\* store_password(u, p) (password.rs:53-97)
VaultStore ==
  /\ \E u \in Users, p \in Passwords, n \in Nonces, env \in StoreEnvs :
       LET written == env # "fails_before_write"
           after == IF written THEN store_password(u, p, n) ELSE vault
       IN /\ vault' = after
          /\ kept' = [kept EXCEPT ![u] =
                        [pw |-> IF written THEN p ELSE @.pw,
                         stored |-> @.stored \/ env = "fine"]]
          /\ last' = [op |-> "store_password", user |-> u, password |-> p,
                      ok |-> (env = "fine"),
                      res |-> IF env = "fine" THEN "Ok" ELSE "Io",
                      had |-> has_password(u),
                      others_same |-> \A v \in Users \ {u} : after[v] = vault[v]]
  /\ UNCHANGED <<store, coreVars, save_screenshots, calls, recognizer, lock,
                 poisoned, ppc, puser, perr, presult, authtok, coreRes,
                 constructed, writer>>

\* remove_password(u) (password.rs:135-145); unlink_ok is fs::remove_file's
\* outcome
VaultRemove ==
  /\ \E u \in Users, unlink_ok \in BOOLEAN :
       LET r == IF ~has_password(u) THEN "NotFound"
                ELSE IF ~unlink_ok THEN "Io"
                ELSE "Ok"
           after == IF r = "Ok" THEN remove_password(u) ELSE vault
       IN /\ vault' = after
          /\ kept' = IF r = "Ok" THEN [kept EXCEPT ![u] = NoneKept] ELSE kept
          /\ last' = [op |-> "remove_password", user |-> u, ok |-> (r = "Ok"),
                      res |-> r, had |-> has_password(u),
                      changed |-> (after # vault),
                      others_same |-> \A v \in Users \ {u} : after[v] = vault[v]]
  /\ UNCHANGED <<store, coreVars, save_screenshots, calls, recognizer, lock,
                 poisoned, ppc, puser, perr, presult, authtok, coreRes,
                 constructed, writer>>

\* load_password(u) and has_password(u), the machine id readable and the
\* same as when the entry was written
VaultLoad ==
  /\ \E u \in Users :
       last' = [op |-> "load_password", user |-> u,
                ok |-> load_password(u).ok,
                res |-> load_password(u).val,
                had |-> has_password(u)]
  /\ UNCHANGED <<store, coreVars, save_screenshots, calls, recognizer, lock,
                 poisoned, ppc, puser, perr, presult, authtok, coreRes,
                 constructed, vault, kept, writer>>

NextVault ==
  \/ VaultStore
  \/ VaultRemove
  \/ VaultLoad

\* PasswordStore::new on an empty storage directory
SpecVault == Init /\ [][NextVault]_vars

\* what load_password(u) is expected to return: the password written by the
\* most recent store_password(u, p) that took effect and that no
\* remove_password(u) has followed, NotFound when there is none
Expected(u) ==
  IF kept[u].pw = "none" THEN [ok |-> FALSE, val |-> "NotFound"]
  ELSE [ok |-> TRUE, val |-> kept[u].pw]

\* C17: after any sequence of store_password and remove_password calls,
\* load_password(u) returns exactly the password of the most recent
\* store_password(u, p) that no remove_password(u) has followed, for every
\* user u; a store or a remove for one user leaves every other user's entry
\* as it was.
C17_RoundTrip ==
  /\ \A u \in Users : load_password(u) = Expected(u)
  /\ last.op = "load_password" =>
       (last.ok <=> Expected(last.user).ok) /\ last.res = Expected(last.user).val
  /\ last.op \in {"store_password", "remove_password"} => last.others_same

\* bob's entry, written under the second nonce, was loaded while alice's
\* entry holds another password and carol has none
C17_Witness ==
  /\ last.op = "load_password" /\ last.user = "bob" /\ last.ok
  /\ last.res = "pw_alice"
  /\ vault["bob"][2] = "n2"
  /\ kept["alice"].pw = "pw_bob"
  /\ kept["carol"].pw = "none"

\* load_password and remove_password fail with NotFound exactly when
\* has_password was false when they were called
NotFoundIffAbsent ==
  last.op \in {"load_password", "remove_password"} =>
    (last.res = "NotFound" <=> ~last.had)

\* a failed remove_password changes nothing; after a successful one
\* has_password is false
RemoveEffect ==
  last.op = "remove_password" =>
    /\ ~last.ok => ~last.changed
    /\ last.ok => ~has_password(last.user)

\* C18 as stated: has_password(u) is true exactly when a store_password(u, _)
\* has succeeded since the last remove_password(u); load_password and
\* remove_password fail with NotFound exactly when has_password is false; a
\* failed remove_password changes nothing, and after a successful one
\* has_password is false.
C18_AsStated ==
  /\ \A u \in Users : has_password(u) <=> kept[u].stored
  /\ NotFoundIffAbsent
  /\ RemoveEffect

\* ------------------------------------------------------ Matcher operations
\* the thresholds the matcher is called with: the configured one and one that
\* only near-identical embeddings reach
Thresholds == {threshold, 90}

CandidateLists ==
  UNION {[1 .. n -> Embeddings] : n \in 0 .. MaxCandidates}

\* find_best_match(query, candidates, th) (compare.rs:17-29)
MatchCall ==
  /\ \E query \in Embeddings, candidates \in CandidateLists, th \in Thresholds :
       last' = [op |-> "find_best_match", query |-> query,
                candidates |-> candidates, threshold |-> th,
                res |-> find_best_match(query, candidates, th)]
  /\ UNCHANGED <<store, coreVars, pamVars, save_screenshots, calls, kept, writer>>

SpecMatch == Init /\ [][MatchCall]_vars

\* the similarity of the i-th candidate of the last matcher call
Sim(i) == cosine_similarity(last.query, last.candidates[i])

\* the candidates of the last matcher call with the highest similarity
Best ==
  {i \in 1 .. Len(last.candidates) :
     \A j \in 1 .. Len(last.candidates) : Sim(j) <= Sim(i)}

\* C19 as stated: when several candidates share the highest similarity and
\* it reaches the threshold, find_best_match returns the smallest index
\* among them (the first occurrence).
C19_AsStated ==
  (/\ last.op = "find_best_match"
   /\ Cardinality(Best) > 1
   /\ \A i \in Best : Sim(i) >= last.threshold) =>
    /\ last.res.found
    /\ \A i \in Best : last.res.face_id + 1 <= i

\* C20: find_best_match returns None exactly when no candidate's similarity
\* reaches the threshold, a similarity equal to it being accepted; otherwise
\* the returned index is that of a candidate, its similarity is the highest
\* of all candidates, and the returned similarity is that candidate's.
C20_Selection ==
  last.op = "find_best_match" =>
    /\ ~last.res.found <=>
         \A i \in 1 .. Len(last.candidates) : Sim(i) < last.threshold
    /\ last.res.found =>
         /\ last.res.face_id + 1 \in 1 .. Len(last.candidates)
         /\ last.res.face_id + 1 \in Best
         /\ last.res.similarity = Sim(last.res.face_id + 1)

\* a call in which one candidate scores exactly the threshold and is
\* returned, another scoring below it
C20_Witness ==
  /\ last.op = "find_best_match" /\ last.res.found
  /\ last.res.similarity = last.threshold
  /\ \E i \in 1 .. Len(last.candidates) : Sim(i) < last.threshold

\* ------------------------------------------------ Non-maximum suppression
\* the iou_threshold detect passes to nms (0.4), scaled by 100
NmsThreshold == 40

Max(a, b) == IF a > b THEN a ELSE b

\* BoundingBox::area
area(b) == b.width * b.height

\* the intersection area computed by BoundingBox::iou (detect.rs:41-46)
intersection(a, b) ==
  LET x1 == Max(a.x, b.x)
      y1 == Max(a.y, b.y)
      x2 == Min(a.x + a.width, b.x + b.width)
      y2 == Min(a.y + a.height, b.y + b.height)
  IN Max(x2 - x1, 0) * Max(y2 - y1, 0)

\* BoundingBox::iou(a, b) > th / 100; the ratio is 0 when the union is empty
iou_exceeds(a, b, th) ==
  LET union == area(a) + area(b) - intersection(a, b)
  IN union > 0 /\ 100 * intersection(a, b) > th * union

\* (variant: nothing is suppressed)
suppresses_Never(accepted, later, th) == FALSE

\* detect.rs:390-393: an accepted detection suppresses a later one
suppresses(accepted, later, th) ==
  iou_exceeds(accepted.bbox, later.bbox, th)

\* slice::sort_by on descending confidence: a stable sort, by insertion
RECURSIVE sort_by_confidence(_)
sort_by_confidence(ds) ==
  IF Len(ds) = 0 THEN <<>>
  ELSE LET rest == sort_by_confidence(SubSeq(ds, 1, Len(ds) - 1))
           d == ds[Len(ds)]
           \* d goes after every element that does not rank below it
           k == Cardinality({i \in 1 .. Len(rest) :
                               rest[i].confidence >= d.confidence})
       IN SubSeq(rest, 1, k) \o <<d>> \o SubSeq(rest, k + 1, Len(rest))

\* the loop of nms over the sorted detections from index i on
RECURSIVE nms_from(_, _, _, _, _)
nms_from(ds, i, suppressed, keep, th) ==
  IF i > Len(ds) THEN keep
  ELSE IF i \in suppressed THEN nms_from(ds, i + 1, suppressed, keep, th)
  ELSE nms_from(ds, i + 1,
                suppressed \cup {j \in (i + 1) .. Len(ds) :
                                   j \notin suppressed
                                   /\ suppresses(ds[i], ds[j], th)},
                Append(keep, ds[i]), th)

\* FaceDetector::nms (detect.rs:365-400)
nms(detections, th) ==
  IF Len(detections) = 0 THEN detections
  ELSE nms_from(sort_by_confidence(detections), 1, {}, <<>>, th)

\* boxes of side 10: three in a row, each overlapping the next by more than
\* 0.4 but the first and the third by less, one shifted diagonally by 1, and
\* one far away
BoxOrigins == {<<0, 0>>, <<3, 0>>, <<6, 0>>, <<1, 1>>, <<100, 100>>}
Boxes == {[x |-> o[1], y |-> o[2], width |-> 10, height |-> 10] :
            o \in BoxOrigins}
\* confidences in hundredths
Confidences == {90, 80, 70}
Detections == {[bbox |-> b, confidence |-> c] : b \in Boxes, c \in Confidences}

DetectionLists == UNION {[1 .. n -> Detections] : n \in 0 .. MaxDetections}

\* the detections found before NMS (detect.rs:263)
InitNms ==
  /\ InitCore
  /\ InitPam
  /\ recognizer = TRUE
  /\ vault = [u \in Users |-> <<>>]
  /\ kept = [u \in Users |-> NoneKept]
  /\ writer = NoWriter
  /\ \E ds \in DetectionLists : last = [op |-> "detections", detections |-> ds]

\* the call nms(detections, 0.4) that detect makes (detect.rs:269)
NmsCall ==
  /\ last.op = "detections"
  /\ last' = [op |-> "nms", detections |-> last.detections,
              res |-> nms(last.detections, NmsThreshold)]
  /\ UNCHANGED <<store, coreVars, pamVars, save_screenshots, calls, kept, writer>>

SpecNms == InitNms /\ [][NmsCall]_vars

\* how often detection d occurs in the list ds
Count(ds, d) == Cardinality({i \in 1 .. Len(ds) : ds[i] = d})

\* C21: for every input list, the output of nms(_, 0.4) is a sub-list of the
\* input, ordered by descending confidence, with no two boxes of IoU > 0.4;
\* it contains an input of the highest confidence, and every dropped input
\* has IoU > 0.4 with a kept detection of greater or equal confidence.
C21_Nms ==
  last.op = "nms" =>
    LET in == last.detections
        out == last.res
    IN /\ \A d \in Detections : Count(out, d) <= Count(in, d)
       /\ \A i, j \in 1 .. Len(out) :
            i < j => out[i].confidence >= out[j].confidence
       /\ \A i, j \in 1 .. Len(out) :
            i # j => ~iou_exceeds(out[i].bbox, out[j].bbox, NmsThreshold)
       /\ Len(in) > 0 =>
            /\ Len(out) > 0
            /\ \A i \in 1 .. Len(in) : in[i].confidence <= out[1].confidence
       /\ \A d \in Detections :
            Count(out, d) < Count(in, d) =>
              \E k \in 1 .. Len(out) :
                /\ iou_exceeds(out[k].bbox, d.bbox, NmsThreshold)
                /\ out[k].confidence >= d.confidence

\* the example: (0,0,10,10) at 0.9, (1,1,10,10) at 0.8 and (100,100,10,10)
\* at 0.7, in any order, yield the first and the third
C21_Witness ==
  /\ last.op = "nms"
  /\ Len(last.detections) = 3
  /\ {last.detections[i] : i \in 1 .. 3} =
       {[bbox |-> [x |-> 0, y |-> 0, width |-> 10, height |-> 10],
         confidence |-> 90],
        [bbox |-> [x |-> 1, y |-> 1, width |-> 10, height |-> 10],
         confidence |-> 80],
        [bbox |-> [x |-> 100, y |-> 100, width |-> 10, height |-> 10],
         confidence |-> 70]}
  /\ last.detections[1].confidence = 70
  /\ last.res =
       <<[bbox |-> [x |-> 0, y |-> 0, width |-> 10, height |-> 10],
          confidence |-> 90],
         [bbox |-> [x |-> 100, y |-> 100, width |-> 10, height |-> 10],
          confidence |-> 70]>>

\* ---------------------------------------------------- Camera quality gate
\* IEEE-754 single precision, for the positive values the gate computes: the
\* value m / 2^e with m < 2^24
RECURSIVE Pow2(_)
Pow2(n) == IF n = 0 THEN 1 ELSE 2 * Pow2(n - 1)

\* a / b rounded to the nearest integer, ties to even
round_div(a, b) ==
  LET q == a \div b
      r == a % b
  IN IF 2 * r > b \/ (2 * r = b /\ q % 2 = 1) THEN q + 1 ELSE q

\* the exponent at which h / t has a 24-bit significand
RECURSIVE f32_exponent(_, _, _)
f32_exponent(h, t, e) ==
  IF h * Pow2(e) >= t * Pow2(23) THEN e ELSE f32_exponent(h, t, e + 1)

\* h as f32 / t as f32, for 0 < h <= t
f32_div(h, t) ==
  LET e == f32_exponent(h, t, 23)
  IN [m |-> round_div(h * Pow2(e), t), e |-> e]

\* x * 100.0 in f32
f32_mul100(x) ==
  LET k == IF x.m * 100 < Pow2(30) THEN 6 ELSE 7
  IN [m |-> round_div(x.m * 100, Pow2(k)), e |-> x.e - k]

\* count / total, as a percentage, exceeds th
exceeds_Exact(count, total, th) == 100 * count > th * total

\* (count as f32 / total as f32) * 100.0 > th, as capture.rs:176-177 and
\* capture.rs:203-207 compute it; th is a whole number
exceeds(count, total, th) ==
  IF count = 0 THEN 0 > th
  ELSE LET pct == f32_mul100(f32_div(count, total))
       IN pct.m > th * Pow2(pct.e)

\* RGB pixels: black, not black but of integer mean 0, the brightest of the
\* first histogram bin, the darkest of the second, the brightest that is not
\* blown out, and blown out
PixelKinds == {<<0, 0, 0>>, <<1, 1, 0>>, <<31, 31, 31>>, <<32, 32, 32>>,
               <<240, 240, 240>>, <<241, 241, 241>>}

\* pixels per decoded frame
FramePixels == 20

\* ((p[0] as u16 + p[1] as u16 + p[2] as u16) / 3) as u8
gray(p) == (p[1] + p[2] + p[3]) \div 3

BINS == 8
BIN_SIZE == 32
bright_threshold == 240
\* the overexposure limit in percent (capture.rs:207)
OverexposedLimit == 15

\* the histogram bin of a pixel (capture.rs:163)
bin(p) == Min(gray(p) \div BIN_SIZE, BINS - 1)

\* the number of pixels of frame f whose kind is in S
RECURSIVE count_pixels(_, _)
count_pixels(f, S) ==
  IF S = {} THEN 0
  ELSE LET p == CHOOSE x \in S : TRUE
       IN f[p] + count_pixels(f, S \ {p})

total_pixels(f) == count_pixels(f, PixelKinds)
black_pixels(f) == count_pixels(f, {p \in PixelKinds : gray(p) = 0})
darkest_bin(f) == count_pixels(f, {p \in PixelKinds : bin(p) = 0})
bright_pixels(f) ==
  count_pixels(f, {p \in PixelKinds : gray(p) > bright_threshold})

\* analyze_frame_darkness(image, dark_threshold).1 (capture.rs:146-190)
analyze_frame_darkness(f, dark_threshold) ==
  IF black_pixels(f) = total_pixels(f) THEN TRUE
  ELSE exceeds(darkest_bin(f), total_pixels(f), dark_threshold)

\* is_overexposed(image).1 (capture.rs:194-219)
is_overexposed(f) ==
  exceeds(bright_pixels(f), total_pixels(f), OverexposedLimit)

\* capture_frame(check_quality) on the decoded frame f (capture.rs:116-139)
quality_check(f, check_quality, dark_threshold) ==
  IF ~check_quality THEN "Ok"
  ELSE IF analyze_frame_darkness(f, dark_threshold) THEN "BadFrame(too dark)"
  ELSE IF is_overexposed(f) THEN "BadFrame(overexposed)"
  ELSE "Ok"

\* camera.dark_threshold: the default (config.rs:46) and the largest the
\* configuration accepts (config.rs:165)
DarkThresholds == {80, 100}

\* the frames: all black apart from a, b, c, d and e pixels of the other kinds
FrameOf(a, b, c, d, e) ==
  [p \in PixelKinds |->
     IF p = <<1, 1, 0>> THEN a
     ELSE IF p = <<31, 31, 31>> THEN b
     ELSE IF p = <<32, 32, 32>> THEN c
     ELSE IF p = <<240, 240, 240>> THEN d
     ELSE IF p = <<241, 241, 241>> THEN e
     ELSE FramePixels - a - b - c - d - e]

\* few pixels of the second bin are enough to tell the bins apart
DecodedFrames ==
  {FrameOf(t[1], t[2], t[3], t[4], t[5]) :
     t \in {x \in (0 .. FramePixels) \X (0 .. FramePixels) \X (0 .. 1)
                  \X (0 .. FramePixels) \X (0 .. FramePixels) :
              x[1] + x[2] + x[3] + x[4] + x[5] <= FramePixels}}

\* a frame has been decoded inside capture_frame(check_quality)
InitQuality ==
  /\ InitCore
  /\ save_screenshots = TRUE
  /\ InitPam
  /\ recognizer = TRUE
  /\ vault = [u \in Users |-> <<>>]
  /\ kept = [u \in Users |-> NoneKept]
  /\ writer = NoWriter
  /\ \E f \in DecodedFrames, c \in BOOLEAN, t \in DarkThresholds :
       last = [op |-> "decoded", frame |-> f, check_quality |-> c,
               dark_threshold |-> t]

\* capture.rs:116-139
QualityCheck ==
  /\ last.op = "decoded"
  /\ last' = [op |-> "capture_frame", frame |-> last.frame,
              check_quality |-> last.check_quality,
              dark_threshold |-> last.dark_threshold,
              res |-> quality_check(last.frame, last.check_quality,
                                    last.dark_threshold)]
  /\ UNCHANGED <<store, coreVars, pamVars, save_screenshots, calls, kept, writer>>

SpecQuality == InitQuality /\ [][QualityCheck]_vars

\* C22 as stated: capture_frame(true) returns BadFrame exactly when every
\* pixel of the decoded frame has integer mean 0, or the percentage of pixels
\* of luma 0..31 exceeds dark_threshold, or the percentage of pixels of mean
\* above 240 exceeds 15; the darkness test comes first; every other frame is
\* accepted, and capture_frame(false) never returns BadFrame.
C22_AsStated ==
  last.op = "capture_frame" =>
    LET f == last.frame
        all_black == \A p \in PixelKinds : f[p] > 0 => gray(p) = 0
        dark == exceeds_Exact(darkest_bin(f), total_pixels(f),
                              last.dark_threshold)
        bright == exceeds_Exact(bright_pixels(f), total_pixels(f),
                                OverexposedLimit)
    IN /\ last.res # "Ok" <=>
            (last.check_quality /\ (all_black \/ dark \/ bright))
       /\ (last.check_quality /\ (all_black \/ dark)) =>
            last.res = "BadFrame(too dark)"

\* ------------------------------------------- enroll on the FaceRecognizer
\* lib.rs:393
MAX_ENROLLMENT_FRAMES == 60

\* ensure_models_loaded (lib.rs:66-89) then ensure_camera_ready (lib.rs:92-99)
\* as enroll_with_debug calls them (lib.rs:385-386): each handle that is None
\* is built, in the order detector, embedder, camera, and the first failure
\* returns; n is the number the handles built by this call carry
ensure_handles(n, det_ok, emb_ok, cam_ok) ==
  LET d == IF detector # 0 THEN detector ELSE IF det_ok THEN n ELSE 0
      e == IF d = 0 THEN embedder
           ELSE IF embedder # 0 THEN embedder ELSE IF emb_ok THEN n ELSE 0
      c == IF d = 0 \/ e = 0 THEN camera
           ELSE IF camera # 0 THEN camera ELSE IF cam_ok THEN n ELSE 0
  IN [detector |-> d, embedder |-> e, camera |-> c]

\* what enroll_with_debug leaves in `last` when it returns
EnrollReturn(u, l, e, stage, after) ==
  [op |-> "enroll", user |-> u, label |-> l, embedding |-> e,
   stage |-> stage, ok |-> (stage = "save"), res |-> Len(load_metadata(u)),
   changed |-> (after # store)]

\* lib.rs:378-399: enroll_with_debug(u, l, _) up to the frame search
EnrollBegin ==
  /\ pc \in {"idle", "done"}
  /\ calls < MaxCalls
  /\ calls' = calls + 1
  /\ \E u \in Enrollees, l \in Labels, det_ok \in BOOLEAN, emb_ok \in BOOLEAN,
        cam_ok \in BOOLEAN :
       LET h == ensure_handles(calls + 1, det_ok, emb_ok, cam_ok)
       IN /\ detector' = h.detector
          /\ embedder' = h.embedder
          /\ camera' = h.camera
          /\ IF h.detector # 0 /\ h.embedder # 0 /\ h.camera # 0
               THEN /\ pc' = "enroll"
                    /\ enroll' = [user |-> u, label |-> l, attempt |-> 0,
                                   face_found |-> FALSE]
                    /\ UNCHANGED last
               ELSE /\ pc' = "idle"
                    /\ enroll' = NoEnroll
                    /\ last' = EnrollReturn(u, l, NoEmb, "init", store)
  \* nothing of an earlier authenticate call is left
  /\ username' = "alice" /\ enrolled_embeddings' = <<>> /\ frame_idx' = 0
  /\ start_time' = 0 /\ result' = "none" /\ now' = 0 /\ hist' = NoHist
  /\ UNCHANGED <<store, worker, leaked, pamVars, save_screenshots, kept, writer>>

\* (variant: the search goes on past a frame with a face)
search_stops_Never(d) == FALSE

\* lib.rs:403-413: the attempt ends the search when the frame passes the
\* quality check and the detector finds a face in it
search_stops(d) == capture_frame(TRUE, d) = "Ok" /\ d.det = "faces"

\* lib.rs:401: `for attempt in 0..MAX_ENROLLMENT_FRAMES`, whatever the
\* attempt met
next_attempt(attempt, d) == attempt + 1

\* lib.rs:401-434 and, once a face frame is found, lib.rs:446-484: one
\* attempt of the search on what the stream delivers
EnrollAttempt ==
  /\ pc = "enroll"
  /\ enroll.attempt < MAX_ENROLLMENT_FRAMES
  /\ \E d \in Deliveries, env \in {"dir_fails", "explicit_path", "fine"} :
       IF search_stops(d)
         THEN LET stage == enroll_stage(TRUE, TRUE, d, env = "explicit_path",
                                        env # "dir_fails")
                  after == IF stage = "save"
                             THEN save_embedding(enroll.user, d.emb,
                                                 enroll.label)
                             ELSE store
              IN /\ stage = "save" => Len(load_metadata(enroll.user)) < MaxFaces
                 /\ store' = after
                 /\ last' = EnrollReturn(enroll.user, enroll.label, d.emb,
                                         stage, after)
                 /\ pc' = "idle"
                 /\ enroll' = NoEnroll
         ELSE /\ env = "fine"
              /\ enroll' = [enroll EXCEPT
                              !.attempt = next_attempt(enroll.attempt, d),
                              !.face_found = (capture_frame(TRUE, d) = "Ok"
                                              /\ d.det = "faces")]
              /\ UNCHANGED <<store, last, pc>>
  /\ UNCHANGED <<camera, detector, embedder, username, enrolled_embeddings,
                 frame_idx, start_time, result, worker, leaked, now, hist,
                 calls, pamVars, save_screenshots, kept, writer>>

\* lib.rs:436-443: every attempt is used up
EnrollExhausted ==
  /\ pc = "enroll"
  /\ enroll.attempt >= MAX_ENROLLMENT_FRAMES
  /\ pc' = "idle"
  /\ enroll' = NoEnroll
  /\ last' = EnrollReturn(enroll.user, enroll.label, NoEmb, "search", store)
  /\ UNCHANGED <<store, camera, detector, embedder, username,
                 enrolled_embeddings, frame_idx, start_time, result, worker,
                 leaked, now, hist, calls, pamVars, save_screenshots, kept, writer>>

NextEnroll ==
  \/ EnrollBegin
  \/ EnrollAttempt
  \/ EnrollExhausted

\* `nihao add` (main.rs:100-112) run again and again on one FaceRecognizer
SpecEnroll == Init /\ [][NextEnroll]_vars

\* C23: the frame search of an enrolment makes at most 60 attempts; an
\* attempt that does not end the search (a rejected frame, a capture error, a
\* detection error, a frame without a face) uses up exactly one of them and
\* writes nothing; the search ends at the first attempt whose frame has a
\* detected face, and the enrolment goes on with that frame; when all 60 are
\* used up the enrolment fails and the Face Store is as it was.
C23_FrameSearch ==
  /\ [](pc = "enroll" => /\ enroll.attempt <= MAX_ENROLLMENT_FRAMES
                         /\ ~enroll.face_found)
  /\ [](last.op = "enroll" /\ last.stage = "search"
          => ~last.ok /\ ~last.changed)
  /\ [][pc = "enroll" /\ pc' = "enroll"
          => /\ enroll'.attempt = enroll.attempt + 1
             /\ store' = store]_vars
  /\ [][pc = "enroll" /\ pc' # "enroll"
          => IF enroll.attempt < MAX_ENROLLMENT_FRAMES
               THEN /\ last'.stage \notin {"init", "search"}
                    /\ last'.ok => /\ last'.embedding \in Embeddings
                                   /\ last'.changed
               ELSE /\ last'.stage = "search"
                    /\ store' = store]_vars

\* an enrolment has used up its 60 attempts, after an earlier enrolment on
\* the same FaceRecognizer saved an embedding
C23_Witness ==
  /\ pc = "enroll"
  /\ enroll.attempt = MAX_ENROLLMENT_FRAMES
  /\ Len(load_metadata("carol")) = 1

\* ------------------------------- enroll and authenticate on one recognizer
NextRecognizer ==
  \/ Next
  \/ NextEnroll

\* any sequence of enroll and authenticate calls on one FaceRecognizer
SpecRecognizer == Init /\ [][NextRecognizer]_vars

\* C24 as stated: across any sequence of enroll and authenticate calls on one
\* FaceRecognizer, calls that fail during initialisation included, a Camera,
\* Detector or Embedder handle that was present when an authenticate call
\* began is still the same handle at every later point of the call, and a
\* call that found all three present spawned no worker and opened no camera.
C24_AsStated ==
  pc \in {"caminit", "join", "loop", "done"} =>
    /\ hist.handles[1] # 0 => camera = hist.handles[1]
    /\ hist.handles[2] # 0 => detector = hist.handles[2]
    /\ hist.handles[3] # 0 => embedder = hist.handles[3]
    /\ (\A i \in 1 .. 3 : hist.handles[i] # 0)
         => hist.spawned = 0 /\ hist.opened = 0

\* C25 as stated: whenever an authenticate call spawned the warm-up worker,
\* the call has returned (with success, with an error from the worker, or
\* with an error from the caller's own camera initialisation) only after
\* joining the worker; no return leaves the worker unjoined.
C25_AsStated ==
  pc = "done" /\ hist.spawned > 0 => worker = "joined"

\* ------------------------------------ the Face Store under a concurrent reader
\* save_embedding(u, e, l) up to its first write (store.rs:109-126): the user
\* directory is created and the manifest read
SaveStart ==
  /\ writer = NoWriter
  /\ \E u \in Enrollees, e \in Embeddings, l \in Labels :
       /\ Len(load_metadata(u)) < MaxFaces
       /\ store' = [store EXCEPT ![u].dir = TRUE]
       /\ writer' = [op |-> "save_embedding", step |-> "write", user |-> u,
                     embedding |-> e, label |-> l,
                     face_id |-> Len(load_metadata(u)),
                     metadata |-> load_metadata(u)]
  /\ UNCHANGED <<coreVars, pamVars, save_screenshots, calls, last, kept>>

\* store.rs:129-141: the sibling file is written
SaveWrite ==
  /\ writer.op = "save_embedding" /\ writer.step = "write"
  /\ store' = [store EXCEPT ![writer.user].files[writer.face_id] =
                              serialize(writer.embedding)]
  /\ writer' = [writer EXCEPT !.step = "save_metadata"]
  /\ UNCHANGED <<coreVars, pamVars, save_screenshots, calls, last, kept>>

\* store.rs:144-149: the record is pushed and the manifest rewritten
SaveMetadata ==
  /\ writer.op = "save_embedding" /\ writer.step = "save_metadata"
  /\ store' = [store EXCEPT
                 ![writer.user].meta = TRUE,
                 ![writer.user].faces =
                    Append(writer.metadata, [id |-> writer.face_id,
                                             label |-> writer.label])]
  /\ writer' = NoWriter
  /\ UNCHANGED <<coreVars, pamVars, save_screenshots, calls, last, kept>>

\* remove_embedding(u, face_id) up to its first write (store.rs:155-171): the
\* manifest is read and the record dropped from the copy in memory
RemoveStart ==
  /\ writer = NoWriter
  /\ \E u \in StoreUsers, face_id \in FaceIds :
       /\ remove_result(u, face_id) = "Ok"
       /\ writer' = [op |-> "remove_embedding", step |-> "remove_file",
                     user |-> u, face_id |-> face_id,
                     metadata |-> remove_at(load_metadata(u),
                                            position(load_metadata(u),
                                                     face_id))]
  /\ UNCHANGED <<store, coreVars, pamVars, save_screenshots, calls, last,
                 kept>>

\* store.rs:174-177: the sibling file is deleted
RemoveFile ==
  /\ writer.op = "remove_embedding" /\ writer.step = "remove_file"
  /\ store' = [store EXCEPT ![writer.user].files[writer.face_id] = NoFile]
  /\ writer' = [writer EXCEPT !.step = "save_metadata"]
  /\ UNCHANGED <<coreVars, pamVars, save_screenshots, calls, last, kept>>

\* store.rs:180: the manifest without the record is written
RemoveMetadata ==
  /\ writer.op = "remove_embedding" /\ writer.step = "save_metadata"
  /\ store' = [store EXCEPT ![writer.user].meta = TRUE,
                            ![writer.user].faces = writer.metadata]
  /\ writer' = NoWriter
  /\ UNCHANGED <<coreVars, pamVars, save_screenshots, calls, last, kept>>

\* load_embeddings(u) (store.rs:60-78) in another process, run between two
\* steps of the writer; missing: the records of the manifest it read whose
\* sibling file was absent
ReaderLoad ==
  /\ \E u \in StoreUsers :
       last' = [op |-> "load_embeddings", user |-> u,
                res |-> load_embeddings(u), during |-> writer.op,
                missing |-> {i \in 1 .. Len(list_faces(u)) :
                               store[u].files[list_faces(u)[i].id] = NoFile}]
  /\ UNCHANGED <<store, coreVars, pamVars, save_screenshots, calls, kept,
                 writer>>

NextConcurrent ==
  \/ SaveStart
  \/ SaveWrite
  \/ SaveMetadata
  \/ RemoveStart
  \/ RemoveFile
  \/ RemoveMetadata
  \/ ReaderLoad

\* `nihao add` / `nihao remove` in one process, a reader in another
SpecConcurrent == Init /\ [][NextConcurrent]_vars

\* C26 as stated: when load_embeddings(u) runs at any point between the
\* file-system steps of a concurrent save_embedding or remove_embedding, every
\* record it finds in the manifest has its sibling file, so it never fails on
\* a missing file.
C26_AsStated ==
  last.op = "load_embeddings" => last.missing = {} /\ last.res.err # "Io"

\* C27 as stated: once a plugin call has ended in SERVICE_ERR because the
\* core panicked while the lock was held, a plugin call in the same process
\* that comes to the lock afterwards can still take it: no call fails at the
\* lock.
C27_AsStated ==
  (\E r \in Requests : presult[r] = "SERVICE_ERR")
    => \A q \in Requests : perr[q] # "Failed to lock recognizer"

\* C28 as stated: a failure to create the debug directory or to write a debug
\* image never changes what authenticate or enroll return: no authenticate
\* call returns the error of ensure_debug_dir instead of going on with the
\* frame, and no enroll call stops at the debug step instead of going on to
\* alignment, embedding and save_embedding.
C28_AsStated ==
  /\ pc = "done" => result # "Err(Other)"
  /\ last.op = "enroll" => last.stage # "debug"

\* --------------------------------------------------- the tail of detect
\* detect.rs:272-278: slice::sort_by on descending confidence * sqrt(area),
\* a stable sort; the scores are compared by their squares
RECURSIVE sort_by_score(_)
sort_by_score(ds) ==
  IF Len(ds) = 0 THEN <<>>
  ELSE LET rest == sort_by_score(SubSeq(ds, 1, Len(ds) - 1))
           d == ds[Len(ds)]
           score(x) == x.confidence * x.confidence * area(x.bbox)
           k == Cardinality({i \in 1 .. Len(rest) : score(rest[i]) >= score(d)})
       IN SubSeq(rest, 1, k) \o <<d>> \o SubSeq(rest, k + 1, Len(rest))

\* (variant: the detections go to NMS without the emptiness check)
detect_Unchecked(detections) ==
  [ok |-> TRUE, err |-> "none",
   val |-> sort_by_score(nms(detections, NmsThreshold))]

\* FaceDetector::detect from the decoded detections on (detect.rs:263-280)
detect(detections) ==
  IF Len(detections) = 0
    THEN [ok |-> FALSE, err |-> "NoFaces", val |-> <<>>]
    ELSE [ok |-> TRUE, err |-> "none",
          val |-> sort_by_score(nms(detections, NmsThreshold))]

\* the end of a detect call on the detections it decoded
DetectCall ==
  /\ last.op = "detections"
  /\ last' = [op |-> "detect", detections |-> last.detections,
              res |-> detect(last.detections)]
  /\ UNCHANGED <<store, coreVars, pamVars, save_screenshots, calls, kept,
                 writer>>

\* the calls on one FaceRecognizer, and, apart from them, detect on every
\* list of decoded detections
InitPanicFree == Init \/ InitNms

NextPanicFree ==
  \/ last.op \notin {"detections", "detect"} /\ NextRecognizer
  \/ DetectCall

SpecPanicFree == InitPanicFree /\ [][NextPanicFree]_vars

\* C29: authenticate and enroll are in their frame loop only with the camera,
\* the detector and the embedder all present, so the three unwraps before the
\* loop succeed; and detect never returns Ok with an empty list (an empty list
\* of detections is Err(NoFaces)), so faces[0] exists.
C29_PanicFree ==
  /\ pc \in {"loop", "enroll"} => camera # 0 /\ detector # 0 /\ embedder # 0
  /\ last.op = "detect" =>
       /\ last.res.ok => Len(last.res.val) > 0
       /\ last.res.ok <=> Len(last.detections) > 0

\* an authenticate call is in its frame loop after the warm-up installed the
\* models and the caller opened the camera
C29_Witness ==
  /\ pc = "loop"
  /\ hist.spawned = 1
  /\ hist.opened = 1
  /\ detector # 0 /\ embedder # 0 /\ camera # 0

\* C30 as stated: after any sequence of save_embedding and remove_embedding
\* calls, a further save_embedding(u, e, l) returns the id face_<number of
\* records before the call> and leaves every embedding that was loadable before
\* it loadable with the same contents, in the same place: it never writes over
\* the sibling file of a record still in the manifest.
C30_AsStated ==
  last.op = "save_embedding" =>
    LET m == list_faces(last.user)
        loaded == load_embeddings(last.user)
        n == Len(last.before.val)
    IN /\ last.res = Len(m) - 1
       /\ \A i \in 1 .. (Len(m) - 1) : m[i].id # last.res
       /\ last.before.ok =>
            /\ loaded.ok
            /\ SubSeq(loaded.val, 1, n) = last.before.val

====
